---- MODULE Spec2Model ----
(***************************************************************************)
(* Model of the concurrent conversion scheduler of the 3GPP release        *)
(* fetcher: convert_docs (the orchestrator: discovery, worker start, queue *)
(* join, thread join, report) and converter_worker (the worker loop), with *)
(* the module-level PriorityQueue cq, the shared converted list and its    *)
(* lock.  One action per statement that other threads can observe.         *)
(***************************************************************************)
EXTENDS Integers, Sequences, FiniteSets, TLC

\* ---- bounds ----
MaxFiles == 3
MaxSize == 2
MaxThreads == 2
MaxRuns == 2
FilesPerDir == 2

Files == 1..MaxFiles
Workers == 1..MaxThreads

\* file name extensions found in the tree (str.lower() is applied before the test)
Exts == {"DOC", "zip"}

\* outcomes of requests.post: 200, another status, Timeout raised, any other
\* exception raised (requests.ConnectionError and the like)
Outcomes == {"ok", "non200", "timeout", "connerr"}

\* the conversion endpoints a run is checked against: one that always
\* succeeds, one that always times out, one that always answers (200 or
\* another status), and one that can do anything
ServiceModes == {{"ok"}, {"timeout"}, {"ok", "non200"}, Outcomes}

VARIABLES
    size,          \* getsize(doc_path) of every file of the tree
    ext,           \* extension of every file name
    pdf,           \* state of the file at pdf_path: "absent", "partial", "complete"
    threads,       \* the threads argument of convert_docs
    service,       \* the outcomes the conversion endpoint can produce in this run
    pcMain,        \* position of convert_docs
    idx,           \* next file of os.walk
    tot_files,
    doc_files,
    pre_converted,
    started,       \* number of workers started by t.start()
    joined,        \* number of workers joined by t.join()
    failed,
    fails,
    listPrinted,   \* whether the report printed the failed paths
    queue,         \* cq: the entries currently in the heap
    unfinished,    \* cq.unfinished_tasks
    converted,
    lock,          \* holder of lock, 0 when free
    pc,            \* position of every converter_worker
    item,          \* the item a worker is handling, 0 when none
    pdf0,          \* history: pdf at the start of the run
    pushed,        \* history: files put on cq
    pops,          \* history: number of times cq.get returned each file
    posts,         \* history: number of post calls made for each file
    acks,          \* history: number of task_done calls made for each file
    handled,       \* history: files whose loop iteration has ended
    written,       \* history: files whose pdf_path was opened for writing
    outcome,       \* history: what the post call made for each file did, "none" before it
    held,          \* history: number of files each worker got from cq and has not acknowledged
    run,           \* number of the run of the batch
    prevConverted, \* history: the files in converted at the end of the previous run
    prevPre,       \* history: the files in pre_converted at the end of the previous run
    prevFailed     \* history: the files in failed at the end of the previous run

fsVars == <<size, ext, threads, service>>
mainVars == <<pcMain, idx, tot_files, doc_files, pre_converted, started, joined,
              failed, fails, listPrinted>>
queueVars == <<queue, unfinished>>
workerVars == <<pc, item>>
histVars == <<pdf0, pushed, pops, posts, acks, handled, written, outcome, held>>
runVars == <<run, prevConverted, prevPre, prevFailed>>
vars == <<fsVars, pdf, mainVars, queueVars, converted, lock, workerVars, histVars, runVars>>

\* ---- pure helpers ----
Range(s) == {s[i] : i \in 1..Len(s)}

\* str.lower() on the extensions of Exts
Lower(e) == CASE e = "DOC" -> "doc"
              [] e = "zip" -> "zip"

\* lower.endswith(".doc") or lower.endswith(".docx")
IsConvertible(e) == Lower(e) = "doc" \/ Lower(e) = "docx"

PDF_DIR == "pdfs"

\* the layout of the tree: os.walk yields the files directory by directory,
\* FilesPerDir files in each, and the same file names occur in every directory
DirOf(f) == (f - 1) \div FilesPerDir
NameOf(f) == (f - 1) % FilesPerDir

\* mutant: the directory structure is not mirrored under PDF_DIR
PdfPath_Flat(f) == [dir |-> <<PDF_DIR>>, file |-> <<NameOf(f), "pdf">>]

\* pdf_path = join(join(PDF_DIR, relpath(dirpath, root_dir)), filename + ".pdf")
PdfPath(f) == [dir |-> <<PDF_DIR, DirOf(f)>>, file |-> <<NameOf(f), "pdf">>]

\* mutant: the test for an existing destination never finds one
IsFile_Never(p) == FALSE

\* os.path.isfile(pdf_path)
IsFile(p) == p # "absent"

\* [x for x in s if P(x)]
RECURSIVE Filter(_, _)
Filter(s, keep) ==
    IF s = <<>> THEN <<>>
    ELSE IF Head(s) \in keep THEN <<Head(s)>> \o Filter(Tail(s), keep)
         ELSE Filter(Tail(s), keep)

\* mutant: a plain queue, any entry may come out
HeapMin_AnyEntry(q) == q

\* the entries PriorityQueue.get may return: the heap's smallest (size, item)
\* tuple.  Entries of equal size are ordered by their file names, which the
\* model does not carry, so any entry of the smallest size may be the one.
HeapMin(q) == {f \in q : \A g \in q : size[f] <= size[g]}

\* mutant: the report forgets to leave out the files already converted
FailedOf_ForgetsPre(docs, conv, pre) == Filter(docs, Files \ Range(conv))

\* failed = [x for x in doc_files if x not in converted and x not in pre_converted]
FailedOf(docs, conv, pre) == Filter(docs, Files \ (Range(conv) \cup Range(pre)))

\* the guard of the report's last print: len(fails) > 0
PrintsFailedList(fl) == Len(fl) > 0

\* ---- initial state: convert_docs entered, lists empty, threads created ----
Init ==
    /\ size \in [Files -> 1..MaxSize]
    /\ ext \in [Files -> Exts]
    /\ pdf \in [Files -> {"absent", "complete"}]
    \* the destination of a file that is not convertible is never looked at, and
    \* getsize is called only on a file that is put on cq: one representative of each
    /\ \A f \in Files : ~IsConvertible(ext[f]) => pdf[f] = "absent"
    /\ \A f \in Files : (~IsConvertible(ext[f]) \/ IsFile(pdf[f])) => size[f] = 1
    /\ threads \in 1..MaxThreads
    /\ service \in ServiceModes
    /\ pcMain = "walk"
    /\ idx = 1
    /\ tot_files = 0
    /\ doc_files = <<>>
    /\ pre_converted = <<>>
    /\ started = 0
    /\ joined = 0
    /\ failed = <<>>
    /\ fails = <<>>
    /\ listPrinted = FALSE
    /\ queue = {}
    /\ unfinished = 0
    /\ converted = <<>>
    /\ lock = 0
    /\ pc = [w \in Workers |-> "new"]
    /\ item = [w \in Workers |-> 0]
    /\ pdf0 = pdf
    /\ pushed = {}
    /\ pops = [f \in Files |-> 0]
    /\ posts = [f \in Files |-> 0]
    /\ acks = [f \in Files |-> 0]
    /\ handled = {}
    /\ written = {}
    /\ outcome = [f \in Files |-> "none"]
    /\ held = [w \in Workers |-> 0]
    /\ run = 1
    /\ prevConverted = {}
    /\ prevPre = {}
    /\ prevFailed = {}

\* ---- convert_docs ----

\* one file of the os.walk loop: count it, classify it, mirror its path, and
\* either record it as already converted or put it on cq.  The files are
\* numbered in the order os.walk yields them; tot_files is advanced file by
\* file instead of directory by directory, it is only read by the report.
WalkFile ==
    /\ pcMain = "walk"
    /\ idx <= MaxFiles
    /\ tot_files' = tot_files + 1
    /\ IF ~IsConvertible(ext[idx])
       THEN UNCHANGED <<doc_files, pre_converted, queue, unfinished, pushed>>
       ELSE /\ doc_files' = Append(doc_files, idx)
            /\ IF IsFile(pdf[idx])
               THEN /\ pre_converted' = Append(pre_converted, idx)
                    /\ UNCHANGED <<queue, unfinished, pushed>>
               ELSE /\ queue' = queue \cup {idx}
                    /\ unfinished' = unfinished + 1
                    /\ pushed' = pushed \cup {idx}
                    /\ UNCHANGED pre_converted
    /\ idx' = idx + 1
    /\ pcMain' = IF idx = MaxFiles THEN "start" ELSE "walk"
    /\ UNCHANGED <<fsVars, pdf, started, joined, failed, fails, listPrinted,
                   converted, lock, workerVars,
                   pdf0, pops, posts, acks, handled, written, outcome, held, runVars>>

\* for t in workers: t.start()
StartWorker ==
    /\ pcMain = "start"
    /\ started < threads
    /\ started' = started + 1
    /\ pc' = [pc EXCEPT ![started + 1] = "check"]
    /\ pcMain' = IF started + 1 = threads THEN "cqjoin" ELSE "start"
    /\ UNCHANGED <<fsVars, pdf, idx, tot_files, doc_files, pre_converted, joined,
                   failed, fails, listPrinted, queueVars, converted, lock, item,
                   histVars, runVars>>

\* mutant: the queue is not joined before the threads are
QueueJoin_NoWait ==
    /\ pcMain = "cqjoin"
    /\ pcMain' = "tjoin"
    /\ UNCHANGED <<fsVars, pdf, idx, tot_files, doc_files, pre_converted, started,
                   joined, failed, fails, listPrinted, queueVars, converted, lock,
                   workerVars, histVars, runVars>>

\* cq.join(): returns once unfinished_tasks is zero
QueueJoin ==
    /\ pcMain = "cqjoin"
    /\ unfinished = 0
    /\ pcMain' = "tjoin"
    /\ UNCHANGED <<fsVars, pdf, idx, tot_files, doc_files, pre_converted, started,
                   joined, failed, fails, listPrinted, queueVars, converted, lock,
                   workerVars, histVars, runVars>>

\* for t in workers: t.join(): returns once that thread has ended
ThreadJoin ==
    /\ pcMain = "tjoin"
    /\ joined < threads
    /\ pc[joined + 1] \in {"done", "crashed"}
    /\ joined' = joined + 1
    /\ UNCHANGED <<fsVars, pdf, pcMain, idx, tot_files, doc_files, pre_converted,
                   started, failed, fails, listPrinted, queueVars, converted, lock,
                   workerVars, histVars, runVars>>

\* the report: failed is computed and the counts are printed; the failed paths
\* are printed under the guard len(fails) > 0
Report ==
    /\ pcMain = "tjoin"
    /\ joined = threads
    /\ failed' = FailedOf(doc_files, converted, pre_converted)
    /\ listPrinted' = PrintsFailedList(fails)
    /\ pcMain' = "reported"
    /\ UNCHANGED <<fsVars, pdf, idx, tot_files, doc_files, pre_converted, started,
                   joined, fails, queueVars, converted, lock, workerVars,
                   histVars, runVars>>

Main == WalkFile \/ StartWorker \/ QueueJoin \/ ThreadJoin \/ Report

\* ---- converter_worker ----

\* while not cq.empty()
WorkerCheck(w) ==
    /\ pc[w] = "check"
    /\ pc' = [pc EXCEPT ![w] = IF queue = {} THEN "done" ELSE "get"]
    /\ UNCHANGED <<fsVars, pdf, mainVars, queueVars, converted, lock, item,
                   histVars, runVars>>

\* mutant: the entry is read but left in the queue
WorkerGet_Peek(w) ==
    /\ pc[w] = "get"
    /\ \E f \in HeapMin(queue) :
          /\ item' = [item EXCEPT ![w] = f]
          /\ pops' = [pops EXCEPT ![f] = @ + 1]
    /\ held' = [held EXCEPT ![w] = @ + 1]
    /\ pc' = [pc EXCEPT ![w] = "post"]
    /\ UNCHANGED <<fsVars, pdf, mainVars, queueVars, converted, lock,
                   pdf0, pushed, posts, acks, handled, written, outcome, runVars>>

\* _, item = cq.get(): blocks while the queue is empty
WorkerGet(w) ==
    /\ pc[w] = "get"
    /\ \E f \in HeapMin(queue) :
          /\ queue' = queue \ {f}
          /\ item' = [item EXCEPT ![w] = f]
          /\ pops' = [pops EXCEPT ![f] = @ + 1]
    /\ held' = [held EXCEPT ![w] = @ + 1]
    /\ pc' = [pc EXCEPT ![w] = "post"]
    /\ UNCHANGED <<fsVars, pdf, mainVars, unfinished, converted, lock,
                   pdf0, pushed, posts, acks, handled, written, outcome, runVars>>

\* mutant: a 200 response is recorded as converted without writing the PDF
AfterPost_NoWrite(o) == CASE o = "ok" -> "lock"
                          [] o = "non200" -> "ack"
                          [] o = "timeout" -> "check"
                          [] o = "connerr" -> "crashed"

\* mutant: a 200 response is acknowledged without being recorded
AfterPost_NoAppend(o) == CASE o = "ok" -> "ack"
                           [] o = "non200" -> "ack"
                           [] o = "timeout" -> "check"
                           [] o = "connerr" -> "crashed"

\* mutant: the response body is written whatever the status
AfterPost_WritesAnyStatus(o) == CASE o = "ok" -> "openpdf"
                                  [] o = "non200" -> "openpdf"
                                  [] o = "timeout" -> "check"
                                  [] o = "connerr" -> "crashed"

\* mutant: a response other than 200 is posted again
AfterPost_Retries(o) == CASE o = "ok" -> "openpdf"
                          [] o = "non200" -> "post"
                          [] o = "timeout" -> "check"
                          [] o = "connerr" -> "crashed"

\* where the loop goes after post, by what post did: 200 goes on to write the
\* PDF, another status to task_done, Timeout is caught and continues the loop,
\* any other exception leaves converter_worker
AfterPost(o) == CASE o = "ok" -> "openpdf"
                  [] o = "non200" -> "ack"
                  [] o = "timeout" -> "check"
                  [] o = "connerr" -> "crashed"

\* open(doc_path), post(...) and the test of response.status_code.  A path that
\* leaves the iteration here ends the handling of the item: the local item is
\* not read again before the next cq.get overwrites it.
WorkerPost(w) ==
    /\ pc[w] = "post"
    /\ \E o \in service :
          /\ pc' = [pc EXCEPT ![w] = AfterPost(o)]
          /\ outcome' = [outcome EXCEPT ![item[w]] = o]
          /\ IF AfterPost(o) \in {"check", "crashed"}
             THEN /\ handled' = handled \cup {item[w]}
                  /\ item' = [item EXCEPT ![w] = 0]
             ELSE UNCHANGED <<handled, item>>
    /\ posts' = [posts EXCEPT ![item[w]] = @ + 1]
    /\ UNCHANGED <<fsVars, pdf, mainVars, queueVars, converted, lock,
                   pdf0, pushed, pops, acks, written, held, runVars>>

\* open(pdf_path, "wb"): the file exists and is empty
WorkerOpenPdf(w) ==
    /\ pc[w] = "openpdf"
    /\ pdf' = [pdf EXCEPT ![item[w]] = "partial"]
    /\ written' = written \cup {item[w]}
    /\ pc' = [pc EXCEPT ![w] = "write"]
    /\ UNCHANGED <<fsVars, mainVars, queueVars, converted, lock, item,
                   pdf0, pushed, pops, posts, acks, handled, outcome, held, runVars>>

\* pdf_file.write(response.content) and the close at the end of the with block
WorkerWrite(w) ==
    /\ pc[w] = "write"
    /\ pdf' = [pdf EXCEPT ![item[w]] = "complete"]
    /\ pc' = [pc EXCEPT ![w] = "lock"]
    /\ UNCHANGED <<fsVars, mainVars, queueVars, converted, lock, item,
                   histVars, runVars>>

\* with lock: acquire
WorkerLock(w) ==
    /\ pc[w] = "lock"
    /\ lock = 0
    /\ lock' = w
    /\ pc' = [pc EXCEPT ![w] = "append"]
    /\ UNCHANGED <<fsVars, pdf, mainVars, queueVars, converted, item,
                   histVars, runVars>>

\* converted.append(doc_path) and the release at the end of the with block
WorkerAppend(w) ==
    /\ pc[w] = "append"
    /\ converted' = Append(converted, item[w])
    /\ lock' = 0
    /\ pc' = [pc EXCEPT ![w] = "ack"]
    /\ UNCHANGED <<fsVars, pdf, mainVars, queueVars, item, histVars, runVars>>

\* cq.task_done(), the last statement of the loop body
WorkerAck(w) ==
    /\ pc[w] = "ack"
    /\ unfinished' = unfinished - 1
    /\ acks' = [acks EXCEPT ![item[w]] = @ + 1]
    /\ handled' = handled \cup {item[w]}
    /\ held' = [held EXCEPT ![w] = @ - 1]
    /\ item' = [item EXCEPT ![w] = 0]
    /\ pc' = [pc EXCEPT ![w] = "check"]
    /\ UNCHANGED <<fsVars, pdf, mainVars, queue, converted, lock,
                   pdf0, pushed, pops, posts, written, outcome, runVars>>

converter_worker(w) ==
    \/ WorkerCheck(w) \/ WorkerGet(w) \/ WorkerPost(w) \/ WorkerOpenPdf(w)
    \/ WorkerWrite(w) \/ WorkerLock(w) \/ WorkerAppend(w) \/ WorkerAck(w)

\* ---- specifications ----

Next == Main \/ \E w \in Workers : converter_worker(w)

Spec == Init /\ [][Next]_vars

\* every thread that can take a step eventually takes one
FairSpec == Spec /\ WF_vars(Main) /\ \A w \in Workers : WF_vars(converter_worker(w))

\* the batch is run again on the tree the finished run left behind
Rerun ==
    /\ pcMain = "reported"
    /\ run < MaxRuns
    /\ run' = run + 1
    /\ prevConverted' = Range(converted)
    /\ prevPre' = Range(pre_converted)
    /\ prevFailed' = Range(failed)
    /\ pcMain' = "walk"
    /\ idx' = 1
    /\ tot_files' = 0
    /\ doc_files' = <<>>
    /\ pre_converted' = <<>>
    /\ started' = 0
    /\ joined' = 0
    /\ failed' = <<>>
    /\ fails' = <<>>
    /\ listPrinted' = FALSE
    /\ queue' = {}
    /\ unfinished' = 0
    /\ converted' = <<>>
    /\ lock' = 0
    /\ pc' = [w \in Workers |-> "new"]
    /\ item' = [w \in Workers |-> 0]
    /\ pdf0' = pdf
    /\ pushed' = {}
    /\ pops' = [f \in Files |-> 0]
    /\ posts' = [f \in Files |-> 0]
    /\ acks' = [f \in Files |-> 0]
    /\ handled' = {}
    /\ written' = {}
    /\ outcome' = [f \in Files |-> "none"]
    /\ held' = [w \in Workers |-> 0]
    /\ UNCHANGED <<fsVars, pdf>>

NextRerun == Next \/ Rerun

SpecRerun == Init /\ [][NextRerun]_vars

\* ---- properties ----

Reported == pcMain = "reported"

\* cq.join() has returned
Drained == pcMain \in {"tjoin", "reported"}

\* C1: in the report the three result lists are pairwise disjoint, together
\* they are exactly the convertible files found, and their lengths add up to
\* the number of convertible files found.
C1_ResultsPartition ==
    Reported =>
        /\ Range(pre_converted) \cap Range(converted) = {}
        /\ Range(pre_converted) \cap Range(failed) = {}
        /\ Range(converted) \cap Range(failed) = {}
        /\ Range(pre_converted) \cup Range(converted) \cup Range(failed) = Range(doc_files)
        /\ Len(pre_converted) + Len(converted) + Len(failed) = Len(doc_files)

C1_Witness ==
    /\ Reported
    /\ pre_converted # <<>>
    /\ converted # <<>>
    /\ failed # <<>>

\* C2: when every conversion call times out and there is pending work, the
\* batch eventually reaches Reported with every pending file in failed and
\* converted empty.
C2_TimeoutsReachReported ==
    (service = {"timeout"} /\ pcMain = "start" /\ queue # {})
        ~> (Reported /\ Range(failed) = pushed /\ converted = <<>>)

\* C3: with a conversion call that always succeeds, once the queue has
\* drained converted holds every pending file exactly once, and no file is
\* ever acknowledged more than once.
C3_ConvertedExactlyOnce ==
    service = {"ok"} =>
        /\ \A f \in Files : acks[f] <= 1
        /\ Drained =>
              /\ Range(converted) = pushed
              /\ Len(converted) = Cardinality(pushed)
              /\ \A f \in pushed : acks[f] = 1

\* two workers, and the larger of two pending files was recorded first
C3_Witness ==
    /\ service = {"ok"}
    /\ threads > 1
    /\ Drained
    /\ Len(converted) >= 2
    /\ size[converted[1]] > size[converted[2]]

\* C4: with a conversion call that always returns, every worker eventually
\* terminates and the batch eventually reaches Reported.
C4_BatchTerminates ==
    (service \subseteq {"ok", "non200"} /\ pcMain = "walk")
        ~> (Reported /\ \A w \in 1..threads : pc[w] = "done")

\* C5: every cq.get returns an entry of the smallest size in the queue at
\* that moment, and with a single worker no file is posted after a larger one.
C5_PopsSmallestFirst ==
    [][\A w \in Workers :
          /\ (pc[w] = "get" /\ pc'[w] = "post")
                => \A g \in queue : size[item'[w]] <= size[g]
          /\ (threads = 1 /\ pc[w] = "post" /\ pc'[w] # "post")
                => \A g \in Files : posts[g] > 0 => size[g] <= size[item[w]]]_vars

\* a single worker has posted a file found later before a larger one found earlier
C5_Witness ==
    /\ threads = 1
    /\ \E f, g \in pushed :
          /\ f < g
          /\ size[f] > size[g]
          /\ posts[g] = 1
          /\ posts[f] = 0

\* C6: in a second run on the same tree with a conversion call that always
\* succeeds, pre_converted is the first run's converted and pre_converted
\* together, nothing is put on the queue and no conversion call is made.
C6_SecondRunIdempotent ==
    (service = {"ok"} /\ run = 2) =>
        /\ pushed = {}
        /\ queue = {}
        /\ \A f \in Files : posts[f] = 0
        /\ converted = <<>>
        /\ pcMain # "walk" => Range(pre_converted) = prevConverted \cup prevPre

C6_Witness ==
    /\ service = {"ok"}
    /\ run = 2
    /\ Reported
    /\ prevConverted # {}
    /\ prevPre # {}

\* C7: no failure of a conversion call ends the worker that made the call.
C7_FailureKeepsWorker ==
    \A w \in Workers : pc[w] # "crashed"

\* C8: the report prints the list of failed paths exactly when failed is not empty.
C8_FailedListPrinted ==
    Reported => (listPrinted <=> failed # <<>>)

\* C9: every file whose loop iteration has ended was acknowledged exactly once.
C9_AcknowledgedOnce ==
    \A f \in handled : acks[f] = 1

\* C10: a convertible file whose destination existed when the walk reached it
\* is in pre_converted, was never put on the queue, never posted, is in
\* neither converted nor failed, and its destination was not written.
C10_PreConvertedUntouched ==
    \A f \in Files :
        (IsConvertible(ext[f]) /\ pdf0[f] # "absent") =>
            /\ f \notin pushed
            /\ f \notin queue
            /\ pops[f] = 0
            /\ posts[f] = 0
            /\ f \notin Range(converted)
            /\ f \notin Range(failed)
            /\ f \notin written
            /\ pdf[f] = pdf0[f]
            /\ idx > f => f \in Range(pre_converted)

C10_Witness ==
    /\ Reported
    /\ pre_converted # <<>>
    /\ converted # <<>>
    /\ \E f \in Range(pre_converted) : pdf[f] = "complete"

\* C11: no file is returned by cq.get more than once, no two workers handle
\* the same file at the same time, only files that were put on the queue are
\* returned, and in the report every file put on the queue has been returned
\* exactly once.
C11_PoppedOnce ==
    /\ \A f \in Files : pops[f] <= 1
    /\ \A f \in Files : pops[f] > 0 => f \in pushed /\ f \notin queue
    /\ \A v, w \in Workers : (v # w /\ item[v] # 0) => item[v] # item[w]
    /\ Reported => \A f \in pushed : pops[f] = 1

\* two workers handle two different files at the same time, one file is still queued
C11_Witness ==
    /\ item[1] # 0
    /\ item[2] # 0
    /\ queue # {}

\* the outcomes of post that are failures of the conversion call
Failures == {"non200", "timeout", "connerr"}

\* C12: a file whose conversion call failed has no destination file, its
\* destination was never opened for writing, and it is not in converted.
C12_FailureWritesNothing ==
    \A f \in Files :
        outcome[f] \in Failures =>
            /\ pdf[f] = "absent"
            /\ f \notin written
            /\ f \notin Range(converted)

\* the handling of a failed file has ended while another file was written
C12_Witness ==
    \E f, g \in Files :
        /\ outcome[f] = "non200"
        /\ f \in handled
        /\ outcome[g] = "ok"
        /\ pdf[g] = "complete"

\* the workers inside a conversion call
InFlight == {w \in Workers : pc[w] = "post"}

\* C13: at most threads conversion calls are in flight, and no worker has
\* more than one file that it got from the queue and has not acknowledged.
C13_BoundedInFlight ==
    /\ Cardinality(InFlight) <= threads
    /\ \A w \in Workers : held[w] <= 1

\* the positions of convert_docs in the order of its statements
PhaseRank(p) == CASE p = "walk" -> 1
                  [] p = "start" -> 2
                  [] p = "cqjoin" -> 3
                  [] p = "tjoin" -> 4
                  [] p = "reported" -> 5

\* C14: convert_docs only moves from a phase to the next one; while the walk
\* is still putting files on the queue no worker runs and nothing has been
\* popped or posted; the threads are joined only once the queue has drained;
\* and in the report every file put on the queue has been popped and
\* acknowledged and every worker has returned.
C14_PhasesInOrder ==
    /\ [][PhaseRank(pcMain') \in {PhaseRank(pcMain), PhaseRank(pcMain) + 1}]_vars
    /\ [](pcMain = "walk" =>
             /\ \A w \in Workers : pc[w] = "new"
             /\ \A f \in Files : pops[f] = 0 /\ posts[f] = 0)
    /\ [](Drained =>
             /\ unfinished = 0
             /\ queue = {}
             /\ \A f \in pushed : pops[f] = 1 /\ acks[f] = 1)
    /\ [](Reported => \A w \in 1..threads : pc[w] = "done")

C14_Witness ==
    /\ Reported
    /\ threads = 2
    /\ Cardinality(pushed) >= 2
    /\ pre_converted # <<>>

\* C15: every file in failed was returned by cq.get and posted in this run,
\* its conversion call did not succeed, and it is no longer in the queue.
C15_FailedWereAttempted ==
    \A f \in Range(failed) :
        /\ pops[f] = 1
        /\ posts[f] = 1
        /\ outcome[f] \in Failures
        /\ f \notin queue
        /\ f \in handled

\* the report lists a failed file next to a converted one and one converted before the run
C15_Witness ==
    /\ Reported
    /\ failed # <<>>
    /\ converted # <<>>
    /\ pre_converted # <<>>
    /\ threads = 2

\* C16: a file that was in failed at the end of a run has no destination when
\* the next run starts; once the next walk has passed it, it is on that run's
\* queue history and not in pre_converted; and within a run no file is
\* posted more than once.
C16_FailedRetriedNextRun ==
    /\ \A f \in Files : posts[f] <= 1
    /\ \A f \in prevFailed :
          /\ pdf0[f] = "absent"
          /\ idx > f => f \in pushed /\ f \notin Range(pre_converted)

\* the second run has converted a file that failed in the first
C16_Witness ==
    /\ run = 2
    /\ Reported
    /\ \E f \in prevFailed : f \in Range(converted)

\* C17: the files put on the queue have pairwise different destination
\* paths, and no two workers hold files with the same destination path.
C17_DistinctDestinations ==
    /\ \A f, g \in pushed : f # g => PdfPath(f) # PdfPath(g)
    /\ \A v, w \in Workers :
          (v # w /\ item[v] # 0 /\ item[w] # 0) => PdfPath(item[v]) # PdfPath(item[w])

\* two workers are writing the PDFs of files of the same name in different directories
C17_Witness ==
    /\ pc[1] \in {"openpdf", "write"}
    /\ pc[2] \in {"openpdf", "write"}
    /\ NameOf(item[1]) = NameOf(item[2])
    /\ DirOf(item[1]) # DirOf(item[2])

\* C18: every file in converted got a 200 response and its destination, absent
\* when the run started, has been completely written in this run; a worker
\* appends only while it holds the lock and after its write has finished.
C18_ConvertedAfterWrite ==
    /\ \A f \in Range(converted) :
          /\ outcome[f] = "ok"
          /\ pdf0[f] = "absent"
          /\ f \in written
          /\ pdf[f] = "complete"
    /\ \A w \in Workers :
          pc[w] = "append" => lock = w /\ pdf[item[w]] = "complete"

\* a file is in converted while another worker is in the middle of its write
C18_Witness ==
    /\ converted # <<>>
    /\ \E w \in Workers : pc[w] = "write" /\ pdf[item[w]] = "partial"

====
